---- MODULE Spec2Model ----
(***************************************************************************)
(* Model of the klartext backend (src/backend/src/app.ts): an Express      *)
(* application with a CORS middleware, the checkOrigin access guard and    *)
(* the handlers POST /simplify, GET /word-info, POST /feedback and GET /.  *)
(*                                                                         *)
(* Strings are sequences: texts are sequences of one-character strings     *)
(* (so that length and trim are computed), header values and urls are      *)
(* sequences of segments (so that startsWith is a prefix test).            *)
(* Every request is handled by a chain of steps; each step is one action   *)
(* and the points where the handler awaits are the points where steps of   *)
(* other requests may interleave.                                          *)
(***************************************************************************)
EXTENDS Integers, Sequences, FiniteSets, TLC

(* ---------------------------------------------------------------- bounds *)
NumReq == 2            \* request slots handled concurrently
MaxClock == 1          \* Date.now() ranges over 0..MaxClock

Slots == 1..NumReq

(* ------------------------------------------------------- configuration  *)
wordLimit == 3
allowedOrigin == <<"https://simplifymytext.org">>
allowedExtension == <<"chrome-extension://klartext">>
TOKEN == <<"dev-token">>

\* createHash('sha256').update(t).digest('hex'): injective on the tokens used
Sha256Hex(t) == <<"sha256-hex-of">> \o t
extension_token == Sha256Hex(TOKEN)

(* ------------------------------------------------------------- strings  *)
Undefined == <<"undefined">>          \* an absent header or body field
Falsy(s) == s = Undefined \/ s = <<>>

\* String.prototype.startsWith
StartsWith(s, p) == Len(s) >= Len(p) /\ SubSeq(s, 1, Len(p)) = p

\* the white space String.prototype.trim removes
IsSpace(c) == c \in {" ", "\t", "\n"}

RECURSIVE TrimStart(_)
TrimStart(s) == IF s # <<>> /\ IsSpace(Head(s)) THEN TrimStart(Tail(s)) ELSE s

RECURSIVE TrimEnd(_)
TrimEnd(s) ==
  IF s # <<>> /\ IsSpace(s[Len(s)]) THEN TrimEnd(SubSeq(s, 1, Len(s) - 1)) ELSE s

TrimMutStartOnly(s) == TrimStart(s)
\* String.prototype.trim
Trim(s) == TrimEnd(TrimStart(s))

OfLen(n) == [i \in 1..n |-> "a"]

(* ------------------------------------------------------------ responses *)
Resp(s, k, m, t) == [status |-> s, kind |-> k, msg |-> m, text |-> t]
NoResp == Resp(0, "none", "", <<>>)
AccessDenied ==
  Resp(403, "message", "Access denied: Requests from your origin are not allowed.", <<>>)
\* Express' default error handler for next(err)
CorsError == Resp(500, "html", "Not allowed by CORS", <<>>)
Preflight == Resp(204, "empty", "", <<>>)
ErrorBody(s, m) == Resp(s, "error", m, <<>>)

(* ------------------------------------------------------------- requests *)
NoFile == [present |-> FALSE, mimetype |-> "", text |-> <<>>, ok |-> TRUE]
File(m, t, ok) == [present |-> TRUE, mimetype |-> m, text |-> t, ok |-> ok]

Num(n) == [t |-> "number", nan |-> FALSE, n |-> n]
NumStr(n) == [t |-> "string", nan |-> FALSE, n |-> n]    \* "5"
TextStr == [t |-> "string", nan |-> TRUE, n |-> 0]        \* "abc"
EmptyStr == [t |-> "string", nan |-> FALSE, n |-> 0]      \* "" converts to 0
Bool(b) == [t |-> "boolean", nan |-> FALSE, n |-> IF b THEN 1 ELSE 0]
Null == [t |-> "null", nan |-> FALSE, n |-> 0]
NoRating == [t |-> "undefined", nan |-> TRUE, n |-> 0]

Request(m, p, o, ref, tok, f, u, t, a, rt, w) ==
  [method |-> m, path |-> p, origin |-> o, referer |-> ref, token |-> tok,
   file |-> f, url |-> u, text |-> t, audience |-> a, rating |-> rt, word |-> w]
NoReq ==
  Request("", "", Undefined, Undefined, Undefined, NoFile, Undefined, Undefined,
          "", NoRating, Undefined)

(* ----------------------------------------------------------------- state *)
VARIABLES
  req,          \* the request held by each slot
  pc,           \* position of the slot's request in the middleware chain
  resp,         \* the response sent for the request
  nresp,        \* number of responses sent for the request
  handler,      \* the endpoint handler that ran for the request
  helper,       \* the extraction helper called for the request
  source,       \* which field the input resolver picked
  inputText,    \* inputText of the /simplify handler
  urlChecked,   \* validateUrl accepted the request's url
  apiCalls,     \* number of completion API calls made for the request
  prompt,       \* the prompt sent to the completion API
  content,      \* choices[0].message.content of the completion response
  simplified,   \* simplifiedText of the /simplify handler
  key,          \* the cache key built by saveToRedis
  setOk,        \* outcome of redisClient.set
  cacheWrites,  \* number of cache entries written for the request
  cache,        \* the cache store: the entries [key, val], one per key
  nsets,        \* number of SET commands the store executed
  now           \* the clock read by Date.now()

local == <<source, inputText, urlChecked, prompt, content, simplified, key, setOk>>
hist == <<handler, helper, apiCalls, cacheWrites>>
store == <<cache, nsets>>
vars == <<req, pc, resp, nresp, local, hist, store, now>>

NoKey == <<"prompt", <<>>, "", -1>>
NoPrompt == [audience |-> "", text |-> <<>>]

Init ==
  /\ req = [r \in Slots |-> NoReq]
  /\ pc = [r \in Slots |-> "idle"]
  /\ resp = [r \in Slots |-> NoResp]
  /\ nresp = [r \in Slots |-> 0]
  /\ handler = [r \in Slots |-> "none"]
  /\ helper = [r \in Slots |-> "none"]
  /\ source = [r \in Slots |-> "none"]
  /\ inputText = [r \in Slots |-> Undefined]
  /\ urlChecked = [r \in Slots |-> FALSE]
  /\ apiCalls = [r \in Slots |-> 0]
  /\ prompt = [r \in Slots |-> NoPrompt]
  /\ content = [r \in Slots |-> Undefined]
  /\ simplified = [r \in Slots |-> Undefined]
  /\ key = [r \in Slots |-> NoKey]
  /\ setOk = [r \in Slots |-> FALSE]
  /\ cacheWrites = [r \in Slots |-> 0]
  /\ cache = {}
  /\ nsets = 0
  /\ now = 0

\* res.status(..).json(..) / res.json(..) / res.send(..): ends the request
Send(r, response) ==
  /\ resp' = [resp EXCEPT ![r] = response]
  /\ nresp' = [nresp EXCEPT ![r] = @ + 1]
  /\ pc' = [pc EXCEPT ![r] = "done"]

Goto(r, p) ==
  /\ pc' = [pc EXCEPT ![r] = p]
  /\ UNCHANGED <<resp, nresp>>

(* ------------------------------------------------------------ middleware *)
\* a request arrives at the server
Receive(r, q) ==
  /\ pc[r] = "idle"
  /\ req' = [req EXCEPT ![r] = q]
  /\ Goto(r, "cors")
  /\ UNCHANGED <<local, hist, store, now>>

\* the origin callback of cors(): any falsy origin is let through
CorsAllowed(origin) ==
  \/ Falsy(origin)
  \/ StartsWith(origin, allowedOrigin)
  \/ StartsWith(origin, allowedExtension)
  \/ StartsWith(origin, <<"http://localhost">>)
  \/ StartsWith(origin, <<"https://localhost">>)

\* app.use(cors({origin})): an origin the callback refuses becomes next(err),
\* answered by the default error handler; an accepted OPTIONS request is
\* answered as a preflight; anything else goes on to checkOrigin
Cors(r) ==
  /\ pc[r] = "cors"
  /\ IF ~CorsAllowed(req[r].origin) THEN Send(r, CorsError)
     ELSE IF req[r].method = "OPTIONS" THEN Send(r, Preflight)
     ELSE Goto(r, "checkOrigin")
  /\ UNCHANGED <<req, local, hist, store, now>>

\* req.headers.origin || req.headers.referer
EffectiveOrigin(q) == IF Falsy(q.origin) THEN q.referer ELSE q.origin

\* the condition of checkOrigin
OriginAllowed(q) ==
  LET origin == EffectiveOrigin(q)
      token == q.token IN
  /\ ~Falsy(origin)
  /\ \/ StartsWith(origin, allowedOrigin)
     \/ (StartsWith(origin, allowedExtension) /\ token = extension_token)
     \/ StartsWith(origin, <<"http://localhost">>)
     \/ StartsWith(origin, <<"https://localhost">>)

\* app.use(checkOrigin)
CheckOrigin(r) ==
  /\ pc[r] = "checkOrigin"
  /\ IF OriginAllowed(req[r]) THEN Goto(r, "route") ELSE Send(r, AccessDenied)
  /\ UNCHANGED <<req, local, hist, store, now>>

Routed(r, m, p) == pc[r] = "route" /\ req[r].method = m /\ req[r].path = p

Ran(r, h) == handler' = [handler EXCEPT ![r] = h]

(* ------------------------------------------------------------- handlers *)
\* app.get('/')
Root(r) ==
  /\ Routed(r, "GET", "/")
  /\ Ran(r, "/")
  /\ Send(r, Resp(200, "html", "<h1>Server Working</h1>", <<>>))
  /\ UNCHANGED <<req, local, helper, apiCalls, cacheWrites, store, now>>

\* isNaN(rating) || rating < 1 || rating > 10, with the operands converted
\* to numbers as the operators do
RatingRejected(rating) == rating.nan \/ rating.n < 1 \/ rating.n > 10

\* app.post('/feedback')
Feedback(r) ==
  /\ Routed(r, "POST", "/feedback")
  /\ Ran(r, "/feedback")
  /\ IF RatingRejected(req[r].rating)
     THEN Send(r, ErrorBody(400, "Rating must be a number between 1 and 10"))
     ELSE Send(r, Resp(200, "message", "Rating submitted successfully", <<>>))
  /\ UNCHANGED <<req, local, helper, apiCalls, cacheWrites, store, now>>


\* the targetAudience record of simplifyText; a label outside the
\* enumeration looks up undefined
TargetAudience(userGroup) ==
  CASE userGroup = "ScientistsResearchers" -> "scientists and researchers"
    [] userGroup = "StudentsAcademics" -> "students and academics"
    [] userGroup = "IndustryProfessionals" -> "industry professionals"
    [] userGroup = "JournalistsMedia" -> "journalists and media professionals"
    [] userGroup = "GeneralPublic" -> "the general public (non-expert audience)"
    [] OTHER -> "undefined"

\* the userPrompt template of simplifyText: the audience phrase and the
\* trimmed text in quotes, followed by the fixed instructions
UserPrompt(text, userGroup) ==
  [audience |-> TargetAudience(userGroup), text |-> Trim(text)]

InputSourceMutUrlFirst(q) ==
  IF ~Falsy(q.url) THEN "url"
  ELSE IF q.file.present THEN "file"
  ELSE IF ~Falsy(q.text) THEN "text"
  ELSE "none"
\* the arrow function that resolves the input of /simplify
InputSource(q) ==
  IF q.file.present THEN "file"
  ELSE IF ~Falsy(q.url) THEN "url"
  ELSE IF ~Falsy(q.text) THEN "text"
  ELSE "none"

HandleFileInputMutDefaultPlain(mimetype) ==
  CASE mimetype = "application/pdf" -> "pdf"
    [] mimetype = "application/vnd.openxmlformats-officedocument.wordprocessingml.document" -> "word"
    [] OTHER -> "plain"
\* the switch of handleFileInput
HandleFileInput(mimetype) ==
  CASE mimetype = "application/pdf" -> "pdf"
    [] mimetype = "application/vnd.openxmlformats-officedocument.wordprocessingml.document" -> "word"
    [] mimetype = "text/plain" -> "plain"
    [] OTHER -> "unsupported"

\* POST /simplify, up to the await of the resolved input
SimplifyResolve(r) ==
  /\ Routed(r, "POST", "/simplify")
  /\ Ran(r, "/simplify")
  /\ LET q == req[r]
         src == InputSource(q)
         how == IF src = "file" THEN HandleFileInput(q.file.mimetype) ELSE src
     IN
     /\ source' = [source EXCEPT ![r] = src]
     /\ CASE how = "none" ->
               /\ Send(r, ErrorBody(500, "No valid input provided"))
               /\ UNCHANGED <<inputText, helper>>
          [] how = "unsupported" ->
               /\ Send(r, ErrorBody(500, "Unsupported file type"))
               /\ UNCHANGED <<inputText, helper>>
          [] how \in {"pdf", "word"} ->
               /\ helper' = [helper EXCEPT ![r] = how]
               /\ Goto(r, "extract")
               /\ UNCHANGED inputText
          [] how = "plain" ->
               /\ inputText' = [inputText EXCEPT ![r] = q.file.text]
               /\ Goto(r, "validate")
               /\ UNCHANGED helper
          [] how = "url" ->
               /\ inputText' = [inputText EXCEPT ![r] = q.url]
               /\ Goto(r, "validate")
               /\ UNCHANGED helper
          [] how = "text" ->
               /\ inputText' = [inputText EXCEPT ![r] = q.text]
               /\ Goto(r, "validate")
               /\ UNCHANGED helper
  /\ UNCHANGED <<req, urlChecked, prompt, content, simplified, key, setOk,
                 apiCalls, cacheWrites, store, now>>

\* extractTextFromPdf / extractTextFromWord settle: the text of the
\* document, or a failure caught by the handler
ExtractReturn(r) ==
  /\ pc[r] = "extract"
  /\ IF req[r].file.ok
     THEN /\ inputText' = [inputText EXCEPT ![r] = req[r].file.text]
          /\ Goto(r, "validate")
     ELSE /\ Send(r, ErrorBody(500, "extraction failed"))
          /\ UNCHANGED inputText
  /\ UNCHANGED <<req, source, urlChecked, prompt, content, simplified, key,
                 setOk, hist, store, now>>

\* simplifyText up to the await of apiClient.post
CallCompletion(r) ==
  /\ prompt' = [prompt EXCEPT ![r] = UserPrompt(inputText[r], req[r].audience)]
  /\ apiCalls' = [apiCalls EXCEPT ![r] = @ + 1]
  /\ Goto(r, "completion")

LengthRejectedMutAtLimit(url, text) == Falsy(url) /\ Len(text) >= wordLimit
\* !url && inputText.length > wordLimit
LengthRejected(url, text) == Falsy(url) /\ Len(text) > wordLimit

\* the length check of /simplify, then validateUrl or simplifyText
SimplifyValidate(r) ==
  /\ pc[r] = "validate"
  /\ IF LengthRejected(req[r].url, inputText[r])
     THEN /\ Send(r, ErrorBody(400, "Text exceeds the word limit"))
          /\ UNCHANGED <<prompt, apiCalls>>
     ELSE IF ~Falsy(req[r].url)
     THEN /\ Goto(r, "validateUrl")
          /\ UNCHANGED <<prompt, apiCalls>>
     ELSE CallCompletion(r)
  /\ UNCHANGED <<req, source, inputText, urlChecked, content, simplified, key,
                 setOk, handler, helper, cacheWrites, store, now>>

\* validateUrl accepts a well-formed url and throws on any other
WellFormedUrl(url) == Len(url) >= 2 /\ url[1] \in {"http://", "https://"}

\* await validateUrl(url) settles
ValidateUrlReturn(r) ==
  /\ pc[r] = "validateUrl"
  /\ IF WellFormedUrl(req[r].url)
     THEN /\ urlChecked' = [urlChecked EXCEPT ![r] = TRUE]
          /\ CallCompletion(r)
     ELSE /\ Send(r, ErrorBody(500, "Invalid URL"))
          /\ UNCHANGED <<urlChecked, prompt, apiCalls>>
  /\ UNCHANGED <<req, source, inputText, content, simplified, key, setOk,
                 handler, helper, cacheWrites, store, now>>

\* the key template of saveToRedis
CacheKey(originalText, targetAudience, uniqueId) ==
  <<"prompt", originalText, targetAudience, uniqueId>>

\* the replies of the completion API: content is choices[0].message.content
Contents == {<<" ", "o", "k", "\n">>, <<"h", "i">>}
CompletionReplies ==
  {[ok |-> TRUE, content |-> c] : c \in Contents \cup {Undefined}}
    \cup {[ok |-> FALSE, content |-> Undefined]}

\* apiClient.post settles: the trimmed content is returned and saveToRedis
\* builds its key from Date.now(); a failed call, or a reply without
\* content, is rethrown as "Text simplification failed"
CompletionReturn(r) ==
  /\ pc[r] = "completion"
  /\ \E reply \in CompletionReplies :
       IF reply.ok /\ reply.content # Undefined
       THEN /\ content' = [content EXCEPT ![r] = reply.content]
            /\ simplified' = [simplified EXCEPT ![r] = Trim(reply.content)]
            /\ key' = [key EXCEPT ![r] = CacheKey(inputText[r], req[r].audience, now)]
            /\ Goto(r, "redis")
       ELSE /\ Send(r, ErrorBody(500, "Text simplification failed"))
            /\ UNCHANGED <<content, simplified, key>>
  /\ UNCHANGED <<req, source, inputText, urlChecked, prompt, setOk, hist, store, now>>

\* SET key value: an existing entry under the key is replaced
RedisSet(c, k, v) == {e \in c : e.key # k} \cup {[key |-> k, val |-> v]}

\* redisClient.set is executed by the store, or fails
SaveToRedis(r) ==
  /\ pc[r] = "redis"
  /\ \E ok \in BOOLEAN :
       /\ setOk' = [setOk EXCEPT ![r] = ok]
       /\ IF ok
          THEN /\ cache' = RedisSet(cache, key[r], simplified[r])
               /\ nsets' = nsets + 1
               /\ cacheWrites' = [cacheWrites EXCEPT ![r] = @ + 1]
          ELSE UNCHANGED <<cache, nsets, cacheWrites>>
  /\ Goto(r, "saved")
  /\ UNCHANGED <<req, source, inputText, urlChecked, prompt, content, simplified,
                 key, handler, helper, apiCalls, now>>

SimplifyRespondMutIgnoreFailure(r) ==
  /\ pc[r] = "saved"
  /\ Send(r, Resp(200, "simplifiedText", "", simplified[r]))
  /\ UNCHANGED <<req, local, hist, store, now>>
\* await saveToRedis settles: res.json({simplifiedText}) or the catch block
SimplifyRespond(r) ==
  /\ pc[r] = "saved"
  /\ IF setOk[r]
     THEN Send(r, Resp(200, "simplifiedText", "", simplified[r]))
     ELSE Send(r, ErrorBody(500, "cache store failed"))
  /\ UNCHANGED <<req, local, hist, store, now>>

\* GET /word-info up to the await of apiClient.post
WordInfo(r) ==
  /\ Routed(r, "GET", "/word-info")
  /\ Ran(r, "/word-info")
  /\ IF Falsy(req[r].word)
     THEN /\ Send(r, ErrorBody(400, "No word provided"))
          /\ UNCHANGED apiCalls
     ELSE /\ apiCalls' = [apiCalls EXCEPT ![r] = @ + 1]
          /\ Goto(r, "wordInfo")
  /\ UNCHANGED <<req, local, helper, cacheWrites, store, now>>

\* apiClient.post of /word-info settles; the reply's text is not modelled
WordInfoReturn(r) ==
  /\ pc[r] = "wordInfo"
  /\ \E ok \in BOOLEAN :
       IF ok THEN Send(r, Resp(200, "wordInfo", "", req[r].word))
       ELSE Send(r, ErrorBody(500, "Error fetching word information"))
  /\ UNCHANGED <<req, local, hist, store, now>>

\* time passes
Tick ==
  /\ now < MaxClock
  /\ now' = now + 1
  /\ UNCHANGED <<req, pc, resp, nresp, local, hist, store>>

(* --------------------------------------------------------------- inputs *)
Endpoints ==
  {<<"POST", "/simplify">>, <<"GET", "/word-info">>, <<"POST", "/feedback">>,
   <<"GET", "/">>}
Routes == Endpoints \cup {<<"OPTIONS", "/simplify">>}

Origins ==
  {Undefined, <<>>, allowedOrigin, allowedOrigin \o <<".evil.example">>,
   <<"http://localhost", ":3000">>, <<"https://localhost">>, allowedExtension,
   <<"https://evil.example">>}
Referers ==
  {Undefined, allowedOrigin \o <<"/page">>, <<"https://evil.example", "/page">>}
Tokens == {Undefined, TOKEN, extension_token}

Texts ==
  {Undefined, <<>>, <<"a">>, <<" ", "a", " ">>, OfLen(wordLimit), OfLen(wordLimit + 1)}
Urls == {Undefined, <<"https://", "example.org/a">>, <<"example">>}
Files ==
  {NoFile,
   File("text/plain", <<" ", "b">>, TRUE),
   File("text/plain", OfLen(wordLimit + 1), TRUE),
   File("application/pdf", <<"b">>, TRUE),
   File("application/pdf", OfLen(wordLimit + 1), TRUE),
   File("application/pdf", <<>>, FALSE),
   File("application/vnd.openxmlformats-officedocument.wordprocessingml.document",
        <<"b">>, TRUE),
   File("image/png", <<"b">>, TRUE)}
Audiences == {"GeneralPublic", "StudentsAcademics"}
Ratings ==
  {Num(n) : n \in {-1, 0, 1, 5, 10, 11}}
    \cup {NumStr(5), NumStr(11), TextStr, EmptyStr, Bool(TRUE), Bool(FALSE), Null,
          NoRating}

\* every route under every combination of the headers the guard reads
GuardRequests ==
  {Request(e[1], e[2], o, ref, tok, NoFile, Undefined, <<"a">>, "GeneralPublic",
           Num(5), <<"w">>) :
     e \in Routes, o \in Origins, ref \in Referers, tok \in Tokens}

\* requests from the allowed origin with every combination of body fields
SimplifyRequests ==
  {Request("POST", "/simplify", allowedOrigin, Undefined, Undefined, f, u, t, a,
           NoRating, Undefined) :
     f \in Files, u \in Urls, t \in Texts, a \in Audiences}
FeedbackRequests ==
  {Request("POST", "/feedback", allowedOrigin, Undefined, Undefined, NoFile,
           Undefined, t, "", rt, Undefined) :
     rt \in Ratings, t \in {Undefined, <<"a">>}}
WordInfoRequests ==
  {Request("GET", "/word-info", allowedOrigin, Undefined, Undefined, NoFile,
           Undefined, Undefined, "", NoRating, w) :
     w \in {Undefined, <<"w">>}}
Requests ==
  GuardRequests \cup SimplifyRequests \cup FeedbackRequests \cup WordInfoRequests

Simple(m, p, f, u, t, rt, w) ==
  Request(m, p, allowedOrigin, Undefined, Undefined, f, u, t, "GeneralPublic", rt, w)
\* the requests that run side by side
ConcurrentRequests ==
  {Simple("POST", "/simplify", NoFile, Undefined, <<"a">>, NoRating, Undefined),
   Simple("POST", "/simplify", File("application/pdf", <<"b">>, TRUE),
          <<"https://", "example.org/a">>, Undefined, NoRating, Undefined),
   Simple("POST", "/simplify", NoFile, Undefined, OfLen(wordLimit + 1), NoRating,
          Undefined),
   Simple("GET", "/word-info", NoFile, Undefined, Undefined, NoRating, <<"w">>),
   Simple("POST", "/feedback", NoFile, Undefined, Undefined, Num(5), Undefined),
   Simple("GET", "/", NoFile, Undefined, Undefined, NoRating, Undefined)}

(* ------------------------------------------------------- specifications *)
Step(r) ==
  \/ Cors(r)
  \/ CheckOrigin(r)
  \/ Root(r)
  \/ Feedback(r)
  \/ WordInfo(r)
  \/ WordInfoReturn(r)
  \/ SimplifyResolve(r)
  \/ ExtractReturn(r)
  \/ SimplifyValidate(r)
  \/ ValidateUrlReturn(r)
  \/ CompletionReturn(r)
  \/ SaveToRedis(r)
  \/ SimplifyRespond(r)

\* one request, of every kind
Next ==
  \/ \E q \in Requests : Receive(1, q)
  \/ Step(1)
  \/ Tick
Spec == Init /\ [][Next]_vars

\* NumReq requests handled side by side
NextConcurrent ==
  \/ \E r \in Slots : \E q \in ConcurrentRequests : Receive(r, q)
  \/ \E r \in Slots : Step(r)
  \/ Tick
SpecConcurrent == Init /\ [][NextConcurrent]_vars

(* ---------------------------------------------------------------- claims *)
Done(r) == pc[r] = "done"
InSimplify(r) == handler[r] = "/simplify"

\* C1: a request whose origin (or, without origin, referer) is missing or on
\* no allow-list is answered 403 with the access-denied message and no
\* endpoint handler runs for it.
C1_DeniedGets403 ==
  \A r \in Slots :
    (Done(r) /\ <<req[r].method, req[r].path>> \in Endpoints
       /\ ~OriginAllowed(req[r])) =>
      (resp[r] = AccessDenied /\ handler[r] = "none")

\* C2: a /simplify request with none of file, url and text is answered 400
\* with an error body and the completion API is not called.
NoInput(q) == ~q.file.present /\ Falsy(q.url) /\ Falsy(q.text)
C2_NoInputGets400 ==
  \A r \in Slots :
    (Done(r) /\ InSimplify(r) /\ NoInput(req[r])) =>
      (resp[r].status = 400 /\ resp[r].kind = "error" /\ apiCalls[r] = 0)

\* C3: a /simplify request with text only, longer than the word limit, is
\* answered 400 without a completion call or a cache write; text of exactly
\* the limit passes the check and goes on to the completion API.
TextOnly(q) == ~q.file.present /\ Falsy(q.url) /\ ~Falsy(q.text)
C3_OverLimitText ==
  \A r \in Slots :
    (InSimplify(r) /\ TextOnly(req[r])) =>
      /\ Len(req[r].text) > wordLimit =>
           /\ apiCalls[r] = 0 /\ cacheWrites[r] = 0
           /\ pc[r] \in {"validate", "done"}
           /\ Done(r) => (resp[r].status = 400 /\ resp[r].kind = "error")
      /\ Len(req[r].text) = wordLimit =>
           /\ pc[r] # "validate" => apiCalls[r] = 1
           /\ Done(r) => resp[r].status # 400
C3_Witness ==
  \E r \in Slots :
    /\ Done(r) /\ InSimplify(r) /\ TextOnly(req[r])
    /\ Len(req[r].text) = wordLimit + 1
    /\ resp[r].status = 400

\* C4: a /simplify request with a file of an unsupported MIME type is
\* answered 400 or 500 with the message "Unsupported file type", with no
\* extraction helper and no completion call, whatever url and text it has.
SupportedTypes ==
  {"application/pdf",
   "application/vnd.openxmlformats-officedocument.wordprocessingml.document",
   "text/plain"}
UnsupportedFile(q) == q.file.present /\ q.file.mimetype \notin SupportedTypes
C4_UnsupportedFile ==
  \A r \in Slots :
    (InSimplify(r) /\ UnsupportedFile(req[r])) =>
      /\ Done(r)
      /\ resp[r].status \in {400, 500}
      /\ resp[r].kind = "error" /\ resp[r].msg = "Unsupported file type"
      /\ helper[r] = "none" /\ apiCalls[r] = 0 /\ cacheWrites[r] = 0
C4_Witness ==
  \E r \in Slots :
    /\ Done(r) /\ InSimplify(r) /\ UnsupportedFile(req[r])
    /\ ~Falsy(req[r].url) /\ ~Falsy(req[r].text)
    /\ resp[r].msg = "Unsupported file type"

\* C5: /feedback answers 400 when the rating is not a number or lies outside
\* 1..10, and 200 with the confirmation when it lies in 1..10.
C5_RatingDecides ==
  \A r \in Slots :
    (Done(r) /\ handler[r] = "/feedback") =>
      IF req[r].rating.t = "number" /\ req[r].rating.n \in 1..10
      THEN resp[r].status = 200 /\ resp[r].kind = "message"
      ELSE resp[r].status = 400

\* t is c without its leading and trailing white space
IsTrimOf(t, c) ==
  \E i \in 0..Len(c) : \E j \in 0..Len(c) :
    /\ i + Len(t) + j = Len(c)
    /\ \A k \in 1..Len(t) : t[k] = c[i + k]
    /\ \A k \in 1..i : IsSpace(c[k])
    /\ \A k \in (Len(c) - j + 1)..Len(c) : IsSpace(c[k])
    /\ t # <<>> => (~IsSpace(t[1]) /\ ~IsSpace(t[Len(t)]))

\* C6: the simplifiedText of a successful /simplify response is the content
\* of the completion reply without its leading and trailing white space, and
\* a request whose completion call and cache write both succeeded is answered
\* with it.
C6_TrimmedContent ==
  \A r \in Slots :
    /\ (Done(r) /\ resp[r].kind = "simplifiedText") =>
         /\ resp[r].status = 200
         /\ content[r] # Undefined
         /\ IsTrimOf(resp[r].text, content[r])
    /\ (Done(r) /\ InSimplify(r) /\ content[r] # Undefined /\ setOk[r]) =>
         resp[r].kind = "simplifiedText"
C6_Witness ==
  \E r \in Slots :
    /\ Done(r) /\ source[r] = "file"
    /\ content[r] = <<" ", "o", "k", "\n">>
    /\ resp[r].kind = "simplifiedText" /\ resp[r].text = <<"o", "k">>

\* C7: a /simplify request gets exactly one response; a successful one wrote
\* exactly one cache entry (input, audience, output), after the completion
\* reply and before the response; an error response wrote none; the
\* completion API is called at most once, and a failed call is answered 500
\* "Text simplification failed". Nothing about the request changes after its
\* response.
C7_State(r) ==
  /\ nresp[r] <= 1
  /\ Done(r) <=> nresp[r] = 1
  /\ InSimplify(r) =>
       /\ apiCalls[r] <= 1
       /\ cacheWrites[r] <= 1
       /\ cacheWrites[r] = 1 =>
            /\ apiCalls[r] = 1 /\ content[r] # Undefined
            /\ pc[r] \in {"saved", "done"}
       /\ Done(r) => resp[r].kind \in {"simplifiedText", "error"}
       /\ (Done(r) /\ resp[r].kind = "simplifiedText") =>
            /\ cacheWrites[r] = 1
            /\ key[r][2] = inputText[r] /\ key[r][3] = req[r].audience
            /\ simplified[r] = resp[r].text
       /\ (Done(r) /\ resp[r].kind = "error") =>
            /\ cacheWrites[r] = 0
            /\ resp[r].status \in {400, 500}
       /\ (Done(r) /\ apiCalls[r] = 1 /\ content[r] = Undefined) =>
            resp[r] = ErrorBody(500, "Text simplification failed")
C7_Step(r) ==
  /\ Done(r) =>
       /\ resp'[r] = resp[r] /\ nresp'[r] = nresp[r]
       /\ apiCalls'[r] = apiCalls[r] /\ cacheWrites'[r] = cacheWrites[r]
  /\ cacheWrites'[r] # cacheWrites[r] => (nresp[r] = 0 /\ nresp'[r] = 0)
C7_AllOrNothing ==
  /\ [](\A r \in Slots : C7_State(r))
  /\ [][\A r \in Slots : C7_Step(r)]_vars
C7_Witness ==
  \E r \in Slots : \E o \in Slots :
    /\ Done(r) /\ InSimplify(r) /\ resp[r].kind = "simplifiedText"
    /\ cacheWrites[r] = 1
    /\ Done(o) /\ InSimplify(o) /\ resp[o] = ErrorBody(500, "cache store failed")
    /\ cacheWrites[o] = 0

\* C8 as stated: the payload picked by priority file > url > text is the text
\* embedded in the prompt and the text of the cache key.
Payload(q) ==
  IF q.file.present THEN q.file.text
  ELSE IF ~Falsy(q.url) THEN q.url
  ELSE q.text
C8_PayloadEmbeddedAsIs ==
  \A r \in Slots :
    (InSimplify(r) /\ apiCalls[r] = 1) =>
      /\ prompt[r].text = Payload(req[r])
      /\ key[r] # NoKey => key[r][2] = Payload(req[r])

\* C8 amended: the payload picked by priority file > url > text is embedded
\* in the prompt without its leading and trailing white space, and is the
\* text of the cache key unchanged.
C8_PayloadByPriority ==
  \A r \in Slots :
    /\ (InSimplify(r) /\ inputText[r] # Undefined) =>
         inputText[r] = Payload(req[r])
    /\ (InSimplify(r) /\ apiCalls[r] = 1) =>
         /\ inputText[r] = Payload(req[r])
         /\ IsTrimOf(prompt[r].text, Payload(req[r]))
         /\ key[r] # NoKey => key[r][2] = Payload(req[r])
C8_Witness ==
  \E r \in Slots :
    /\ InSimplify(r) /\ key[r] # NoKey
    /\ req[r].file.present /\ ~Falsy(req[r].url) /\ ~Falsy(req[r].text)
    /\ req[r].file.text = <<" ", "b">>
    /\ prompt[r].text = <<"b">>
    /\ key[r][2] = <<" ", "b">>

\* C9: the cache store is append-only: every entry written stays in the
\* store and after N cache writes the store holds N entries.
C9_AppendOnly ==
  /\ Cardinality(cache) = nsets
  /\ \A r \in Slots :
       cacheWrites[r] = 1 => [key |-> key[r], val |-> simplified[r]] \in cache

\* C10: a payload sent to the completion API that is not the url is no
\* longer than the word limit, and a url sent to it was accepted by the URL
\* validator.
C10_PayloadWithinLimit ==
  \A r \in Slots :
    (InSimplify(r) /\ apiCalls[r] >= 1) =>
      IF source[r] = "url" THEN urlChecked[r]
      ELSE Len(inputText[r]) <= wordLimit

====
